---- MODULE Spec2Model ----
(***************************************************************************)
(* Model of mcp-servers/gpt-researcher-mcp.py.                             *)
(*                                                                         *)
(* The file is executed top to bottom (lines 1-10) either as the process  *)
(* entry point (__name__ = "__main__") or loaded by a host as a library.   *)
(* It defines one coroutine function, research(query) (lines 4-7).  Each   *)
(* invocation of research is a process of the model with its own program   *)
(* counter and its own locals (query, researcher, report).                 *)
(*                                                                         *)
(* GPTResearcher is an external class.  Its constructor and its            *)
(* conduct_research operation are the environment: the constructor either  *)
(* yields a new task object or raises, the operation either returns a      *)
(* report or raises.  Whatever the event loop throws into the coroutine    *)
(* while it is suspended (a cancellation included) reaches research        *)
(* through the awaited operation, so it is one of the operation's raise    *)
(* outcomes.  The environment keeps, per invocation, the record of the     *)
(* constructor calls and of the conduct_research calls it received.        *)
(***************************************************************************)
EXTENDS Integers, Sequences, FiniteSets, TLC

\* Number of invocations of research the host makes.
MaxInv == 2

Inv == 1..MaxInv

\* Query values a caller passes; the empty string is one of them.
Queries == {"", "climate policy 2030"}

\* Values conduct_research returns.
Reports == {"REPORT:climate policy 2030", "REPORT:"}

\* Failures the dependency raises (constructor or operation).
Failures == {"TimeoutError", "ValueError"}

\* Failures of `from gpt_researcher import GPTResearcher`.
ImportFailures == {"ModuleNotFoundError"}

\* __name__ of the module: entry point, or loaded by a host.
ModuleNames == {"__main__", "gpt_researcher_mcp"}

\* The report_type keyword argument of line 5.
REPORT_TYPE == "research_report"

\* The string printed on line 10.
STARTUP == "GPT Researcher MCP Server started"

\* An unbound local / no value.
NoValue == "<unset>"

\* The local `researcher` before line 5 has bound it.
NoTask == 0

VARIABLES
    name,        \* __name__ of this execution of the module
    mpc,         \* position of the module body: L1, L4, L9, L10, end, raised
    mexc,        \* the failure that ended the module body, if any
    stdout,      \* what print has written, one entry per print call
    pc,          \* pc[i]: position of invocation i of research
    query,       \* query[i]: the parameter `query`
    researcher,  \* researcher[i]: the local `researcher` (a task id)
    report,      \* report[i]: the local `report`
    result,      \* result[i]: how the invocation ended and with what
    awaited,     \* awaited[i]: the task whose operation i awaits / awaited
    tasks,       \* the task objects constructed so far, by id
    ctorLog,     \* ctorLog[i]: the constructor calls made by invocation i
    conductLog   \* conductLog[i]: the conduct_research calls made by i

vars == <<name, mpc, mexc, stdout, pc, query, researcher, report, result,
          awaited, tasks, ctorLog, conductLog>>

modVars == <<name, mpc, mexc, stdout>>
invVars == <<pc, query, researcher, report, result, awaited, tasks,
             ctorLog, conductLog>>

NoResult == [kind |-> "none", val |-> NoValue]

Init ==
    /\ name \in ModuleNames
    /\ mpc = "L1"
    /\ mexc = NoValue
    /\ stdout = <<>>
    /\ pc = [i \in Inv |-> "idle"]
    /\ query = [i \in Inv |-> NoValue]
    /\ researcher = [i \in Inv |-> NoTask]
    /\ report = [i \in Inv |-> NoValue]
    /\ result = [i \in Inv |-> NoResult]
    /\ awaited = [i \in Inv |-> NoTask]
    /\ tasks = <<>>
    /\ ctorLog = [i \in Inv |-> <<>>]
    /\ conductLog = [i \in Inv |-> <<>>]

----------------------------------------------------------------------------
\* The module body, lines 1-10.

\* Lines 1-2: both imports succeed.
ImportOk ==
    /\ mpc = "L1"
    /\ mpc' = "L4"
    /\ UNCHANGED <<name, mexc, stdout>>
    /\ UNCHANGED invVars

\* Line 2: the import of gpt_researcher raises; the module body ends there.
ImportRaise(f) ==
    /\ mpc = "L1"
    /\ mpc' = "raised"
    /\ mexc' = f
    /\ UNCHANGED <<name, stdout>>
    /\ UNCHANGED invVars

\* Line 4: `async def research` binds the name; nothing of its body runs.
DefResearch ==
    /\ mpc = "L4"
    /\ mpc' = "L9"
    /\ UNCHANGED <<name, mexc, stdout>>
    /\ UNCHANGED invVars

\* Line 9: if __name__ == "__main__".
MainGuard ==
    /\ mpc = "L9"
    /\ mpc' = IF name = "__main__" THEN "L10" ELSE "end"
    /\ UNCHANGED <<name, mexc, stdout>>
    /\ UNCHANGED invVars

\* A main block that, after printing, also starts research: not the code.
PrintStartupAndRun ==
    /\ mpc = "L10"
    /\ stdout' = Append(stdout, STARTUP)
    /\ mpc' = "end"
    /\ pc' = [pc EXCEPT ![1] = "L5"]
    /\ query' = [query EXCEPT ![1] = ""]
    /\ UNCHANGED <<name, mexc>>
    /\ UNCHANGED <<researcher, report, result, awaited, tasks, ctorLog,
                   conductLog>>

\* Line 10: print(...), the last statement of the file.
PrintStartup ==
    /\ mpc = "L10"
    /\ stdout' = Append(stdout, STARTUP)
    /\ mpc' = "end"
    /\ UNCHANGED <<name, mexc>>
    /\ UNCHANGED invVars

----------------------------------------------------------------------------
\* research(query), lines 4-7.

\* A host that loaded the module calls research(q) and runs the coroutine.
\* As the entry point the file ends after line 10 and nothing calls it.
Call(i, q) ==
    /\ mpc = "end"
    /\ name # "__main__"
    /\ pc[i] = "idle"
    /\ pc' = [pc EXCEPT ![i] = "L5"]
    /\ query' = [query EXCEPT ![i] = q]
    /\ UNCHANGED modVars
    /\ UNCHANGED <<researcher, report, result, awaited, tasks, ctorLog,
                   conductLog>>

\* Constructor arguments with another report type: not the code.
CtorArgsOtherType(q) == [query |-> q, report_type |-> "detailed_report"]

\* Line 5: the keyword arguments GPTResearcher is called with.
CtorArgs(q) == [query |-> q, report_type |-> REPORT_TYPE]

\* The task object the dependency builds from the arguments it received.
NewTask(args) ==
    [query |-> args.query, report_type |-> args.report_type,
     status |-> "new", out |-> NoValue]

\* Line 5, the constructor returns: a new task object, bound to researcher.
ConstructOk(i) ==
    /\ pc[i] = "L5"
    /\ LET args == CtorArgs(query[i])
           t == Len(tasks) + 1
       IN /\ tasks' = Append(tasks, NewTask(args))
          /\ researcher' = [researcher EXCEPT ![i] = t]
          /\ ctorLog' = [ctorLog EXCEPT ![i] =
                Append(@, [args |-> args, ok |-> TRUE, task |-> t,
                           exc |-> NoValue])]
    /\ pc' = [pc EXCEPT ![i] = "L6"]
    /\ UNCHANGED modVars
    /\ UNCHANGED <<query, report, result, awaited, conductLog>>

\* Line 5, the constructor raises f: research has no handler, f leaves it.
ConstructRaise(i, f) ==
    /\ pc[i] = "L5"
    /\ ctorLog' = [ctorLog EXCEPT ![i] =
          Append(@, [args |-> CtorArgs(query[i]), ok |-> FALSE,
                     task |-> NoTask, exc |-> f])]
    /\ pc' = [pc EXCEPT ![i] = "raised"]
    /\ result' = [result EXCEPT ![i] = [kind |-> "raise", val |-> f]]
    /\ UNCHANGED modVars
    /\ UNCHANGED <<query, researcher, report, awaited, tasks, conductLog>>

\* Line 5 preceded by a check that rejects the empty query: not the code.
ConstructValidating(i) ==
    IF pc[i] = "L5" /\ query[i] = ""
    THEN /\ pc' = [pc EXCEPT ![i] = "raised"]
         /\ result' = [result EXCEPT ![i] =
               [kind |-> "raise", val |-> "ValueError"]]
         /\ UNCHANGED modVars
         /\ UNCHANGED <<query, researcher, report, awaited, tasks, ctorLog,
                        conductLog>>
    ELSE ConstructOk(i) \/ \E f \in Failures : ConstructRaise(i, f)

\* Line 5 inside a handler that re-raises another failure: not the code.
ConstructWrapping(i) ==
    \/ ConstructOk(i)
    \/ \E f \in Failures :
          /\ pc[i] = "L5"
          /\ ctorLog' = [ctorLog EXCEPT ![i] =
                Append(@, [args |-> CtorArgs(query[i]), ok |-> FALSE,
                           task |-> NoTask, exc |-> f])]
          /\ pc' = [pc EXCEPT ![i] = "raised"]
          /\ result' = [result EXCEPT ![i] =
                [kind |-> "raise", val |-> "RuntimeError"]]
          /\ UNCHANGED modVars
          /\ UNCHANGED <<query, researcher, report, awaited, tasks,
                         conductLog>>

\* Line 5: researcher = GPTResearcher(query=query, report_type=...).
Construct(i) ==
    ConstructOk(i) \/ \E f \in Failures : ConstructRaise(i, f)

\* `researcher` as a module-level global, last writer wins: not the code.
ResearcherGlobal(i) == Len(tasks)

\* Line 6: the name `researcher` is the local of this invocation.
ResearcherOf(i) == researcher[i]

\* Line 6, first half: researcher.conduct_research() is called on the task
\* and the coroutine suspends on it.
Invoke(i) ==
    /\ pc[i] = "L6"
    /\ LET t == ResearcherOf(i)
       IN /\ conductLog' = [conductLog EXCEPT ![i] = Append(@, t)]
          /\ awaited' = [awaited EXCEPT ![i] = t]
          /\ tasks' = [tasks EXCEPT ![t].status = "running"]
    /\ pc' = [pc EXCEPT ![i] = "await"]
    /\ UNCHANGED modVars
    /\ UNCHANGED <<query, researcher, report, result, ctorLog>>

\* The dependency: the running operation of task t returns r.
DepReturn(t, r) ==
    /\ t \in 1..Len(tasks)
    /\ tasks[t].status = "running"
    /\ tasks' = [tasks EXCEPT ![t].status = "done", ![t].out = r]
    /\ UNCHANGED modVars
    /\ UNCHANGED <<pc, query, researcher, report, result, awaited, ctorLog,
                   conductLog>>

\* The dependency: the running operation of task t raises f.
DepRaise(t, f) ==
    /\ t \in 1..Len(tasks)
    /\ tasks[t].status = "running"
    /\ tasks' = [tasks EXCEPT ![t].status = "failed", ![t].out = f]
    /\ UNCHANGED modVars
    /\ UNCHANGED <<pc, query, researcher, report, result, awaited, ctorLog,
                   conductLog>>

\* The dependency's operation on task t completes, one way or the other.
DepComplete(t) ==
    \/ \E r \in Reports : DepReturn(t, r)
    \/ \E f \in Failures : DepRaise(t, f)

\* The await yields the operation's value, bound to report.
ResumeValue(i) ==
    /\ pc[i] = "await"
    /\ tasks[awaited[i]].status = "done"
    /\ report' = [report EXCEPT ![i] = tasks[awaited[i]].out]
    /\ pc' = [pc EXCEPT ![i] = "L7"]
    /\ UNCHANGED modVars
    /\ UNCHANGED <<query, researcher, result, awaited, tasks, ctorLog,
                   conductLog>>

\* The await raises the operation's failure; no handler, it leaves research.
ResumeRaise(i) ==
    /\ pc[i] = "await"
    /\ tasks[awaited[i]].status = "failed"
    /\ pc' = [pc EXCEPT ![i] = "raised"]
    /\ result' = [result EXCEPT ![i] =
          [kind |-> "raise", val |-> tasks[awaited[i]].out]]
    /\ UNCHANGED modVars
    /\ UNCHANGED <<query, researcher, report, awaited, tasks, ctorLog,
                   conductLog>>

\* The await inside `except Exception: report = None`: not the code.
ResumeSuppressing(i) ==
    \/ ResumeValue(i)
    \/ /\ pc[i] = "await"
       /\ tasks[awaited[i]].status = "failed"
       /\ report' = [report EXCEPT ![i] = NoValue]
       /\ pc' = [pc EXCEPT ![i] = "L7"]
       /\ UNCHANGED modVars
       /\ UNCHANGED <<query, researcher, result, awaited, tasks, ctorLog,
                      conductLog>>

\* The await inside a retry loop around line 6: not the code.
ResumeRetrying(i) ==
    \/ ResumeValue(i)
    \/ /\ pc[i] = "await"
       /\ tasks[awaited[i]].status = "failed"
       /\ pc' = [pc EXCEPT ![i] = "L6"]
       /\ UNCHANGED modVars
       /\ UNCHANGED <<query, researcher, report, result, awaited, tasks,
                      ctorLog, conductLog>>

\* An await that is only woken by a successful completion: not the code.
ResumeOnSuccessOnly(i) == ResumeValue(i)

\* Line 6, second half: `report = await ...` resumes with the outcome.
Resume(i) == ResumeValue(i) \/ ResumeRaise(i)

\* A function body that ends without `return report`: not the code.
ReturnValueNone(i) == NoValue

\* Line 7: the value of the return statement.
ReturnValue(i) == report[i]

\* A return that does not wait for line 6 to finish: not the code.
ReturnEarly(i) ==
    /\ pc[i] \in {"L6", "L7"}
    /\ result' = [result EXCEPT ![i] =
          [kind |-> "return", val |-> ReturnValue(i)]]
    /\ pc' = [pc EXCEPT ![i] = "returned"]
    /\ UNCHANGED modVars
    /\ UNCHANGED <<query, researcher, report, awaited, tasks, ctorLog,
                   conductLog>>

\* Line 7: return report.
Return(i) ==
    /\ pc[i] = "L7"
    /\ result' = [result EXCEPT ![i] =
          [kind |-> "return", val |-> ReturnValue(i)]]
    /\ pc' = [pc EXCEPT ![i] = "returned"]
    /\ UNCHANGED modVars
    /\ UNCHANGED <<query, researcher, report, awaited, tasks, ctorLog,
                   conductLog>>

----------------------------------------------------------------------------

Next ==
    \/ ImportOk
    \/ \E f \in ImportFailures : ImportRaise(f)
    \/ DefResearch
    \/ MainGuard
    \/ PrintStartup
    \/ \E i \in Inv, q \in Queries : Call(i, q)
    \/ \E i \in Inv : Construct(i)
    \/ \E i \in Inv : Invoke(i)
    \/ \E t \in Inv : DepComplete(t)
    \/ \E i \in Inv : Resume(i)
    \/ \E i \in Inv : Return(i)

Spec == Init /\ [][Next]_vars

\* A started coroutine is run by its event loop whenever it can take a step,
\* and the dependency's operation is assumed to complete.
FairSpec ==
    /\ Init
    /\ [][Next]_vars
    /\ \A i \in Inv : WF_vars(Construct(i))
    /\ \A i \in Inv : WF_vars(Invoke(i))
    /\ \A i \in Inv : WF_vars(Resume(i))
    /\ \A i \in Inv : WF_vars(Return(i))
    /\ \A t \in Inv : WF_vars(DepComplete(t))

----------------------------------------------------------------------------
\* Shorthands used by the properties below.

Terminal == {"returned", "raised"}
Started == {"L5", "L6", "await", "L7", "returned", "raised"}
PastLine5 == {"L6", "await", "L7", "returned", "raised"}

\* The constructor calls of invocation i that failed / succeeded.
CtorFailed(i) == {k \in 1..Len(ctorLog[i]) : ~ctorLog[i][k].ok}
CtorSucceeded(i) == {k \in 1..Len(ctorLog[i]) : ctorLog[i][k].ok}

TypeOK ==
    /\ name \in ModuleNames
    /\ mpc \in {"L1", "L4", "L9", "L10", "end", "raised"}
    /\ \A i \in Inv :
          /\ pc[i] \in Started \cup {"idle"}
          /\ query[i] \in Queries \cup {NoValue}
          /\ researcher[i] \in 0..Len(tasks)
          /\ awaited[i] \in 0..Len(tasks)
          /\ result[i].kind \in {"none", "return", "raise"}

----------------------------------------------------------------------------
\* C1: every constructor call made by an invocation of research(Q) carries
\* query = Q, the caller's value unmodified, and report_type =
\* "research_report"; the task object built from it is scoped to exactly
\* those two values.
C1_ConstructedWithQueryAndFixedType ==
    \A i \in Inv :
       \A k \in 1..Len(ctorLog[i]) :
          /\ ctorLog[i][k].args =
                [query |-> query[i], report_type |-> "research_report"]
          /\ ctorLog[i][k].ok =>
                /\ tasks[ctorLog[i][k].task].query = query[i]
                /\ tasks[ctorLog[i][k].task].report_type = "research_report"

C1_Witness ==
    \E i \in Inv :
       /\ query[i] = "climate policy 2030"
       /\ Len(ctorLog[i]) = 1
       /\ ctorLog[i][1].ok
       /\ tasks[researcher[i]].query = "climate policy 2030"

\* C2: when research has returned, the operation it awaited had returned
\* some R and the value research returned is that R, untransformed; while
\* the invocation sits between the await and the return its local report
\* already holds R.
C2_ReturnsReportUnmodified ==
    \A i \in Inv :
       /\ pc[i] = "returned" =>
             /\ awaited[i] # NoTask
             /\ tasks[awaited[i]].status = "done"
             /\ result[i] = [kind |-> "return",
                             val |-> tasks[awaited[i]].out]
       /\ pc[i] = "L7" => report[i] = tasks[awaited[i]].out

C2_Witness ==
    \E i \in Inv :
       /\ query[i] = "climate policy 2030"
       /\ pc[i] = "returned"
       /\ tasks[awaited[i]].out = "REPORT:climate policy 2030"
       /\ result[i].val = "REPORT:climate policy 2030"

\* C3: when the awaited operation has raised F and research has resumed,
\* research has ended by raising that same F: it did not return, it raised
\* no other failure and it bound no report value.
C3_OperationFailurePropagates ==
    \A i \in Inv :
       (/\ awaited[i] # NoTask
        /\ tasks[awaited[i]].status = "failed"
        /\ pc[i] # "await")
       => /\ pc[i] = "raised"
          /\ result[i] = [kind |-> "raise", val |-> tasks[awaited[i]].out]
          /\ report[i] = NoValue

C3_Witness ==
    \E i \in Inv :
       /\ pc[i] = "raised"
       /\ awaited[i] # NoTask
       /\ tasks[awaited[i]].status = "failed"
       /\ result[i].val = "TimeoutError"

\* C4 as stated: a run as the entry point that has ended has written
\* exactly the startup string once, and research was never called.
C4_AsStated ==
    (name = "__main__" /\ mpc \in {"end", "raised"}) =>
       /\ stdout = <<"GPT Researcher MCP Server started">>
       /\ \A i \in Inv : pc[i] = "idle"
       /\ tasks = <<>>

\* C4, amended: in a run as the entry point whose imports succeeded, the
\* output at the end is exactly the startup string, once, and nothing is
\* written before line 10; when the import of the dependency raises, the
\* run ends with that failure and nothing is written.  In either case
\* research is never called, no task object is constructed, no operation is
\* invoked, and once the module body has ended no step remains.
C4_EntryPointPrintsUnlessImportFails ==
    name = "__main__" =>
       /\ mpc = "end" => stdout = <<"GPT Researcher MCP Server started">>
       /\ mpc # "end" => stdout = <<>>
       /\ mpc = "raised" => mexc \in ImportFailures
       /\ \A i \in Inv :
             /\ pc[i] = "idle"
             /\ ctorLog[i] = <<>>
             /\ conductLog[i] = <<>>
       /\ tasks = <<>>
       /\ mpc \in {"end", "raised"} => ~ENABLED Next

C4_Witness ==
    /\ name = "__main__"
    /\ mpc = "end"
    /\ stdout = <<STARTUP>>

\* C5: invocations are independent.  Task objects of different invocations
\* are different objects; the operation an invocation calls and awaits is
\* the one of the task it constructed itself, which is scoped to its own
\* query; and what it returns or raises after the await is that task's
\* outcome.
C5_InvocationsIndependent ==
    /\ \A i, j \in Inv :
          (i # j /\ researcher[i] # NoTask /\ researcher[j] # NoTask)
          => researcher[i] # researcher[j]
    /\ \A i \in Inv :
          awaited[i] # NoTask =>
             /\ CtorSucceeded(i) # {}
             /\ \A k \in CtorSucceeded(i) :
                   LET own == ctorLog[i][k].task
                   IN /\ awaited[i] = own
                      /\ tasks[own].query = query[i]
                      /\ pc[i] = "returned" => result[i].val = tasks[own].out
                      /\ pc[i] = "raised" => result[i].val = tasks[own].out
             /\ \A j \in Inv :
                   j # i => \A k \in 1..Len(conductLog[j]) :
                               conductLog[j][k] # awaited[i]

\* Invocation 2 constructed first and is still suspended on a completed
\* operation; invocation 1 constructed later and has already returned its
\* own, different report.
C5_Witness ==
    /\ researcher[1] = 2
    /\ researcher[2] = 1
    /\ query[1] # query[2]
    /\ pc[1] = "returned"
    /\ pc[2] = "await"
    /\ tasks[1].status = "done"
    /\ tasks[1].out # result[1].val

\* C6: under FairSpec every started invocation eventually reaches a
\* terminal outcome; a terminal invocation has exactly one outcome, of the
\* matching kind; and from a terminal outcome on, the invocation changes
\* neither its outcome nor the record of its calls to the dependency.
C6_RunsToCompletion ==
    /\ \A i \in Inv : (pc[i] \in Started) ~> (pc[i] \in Terminal)
    /\ [](\A i \in Inv :
            /\ pc[i] = "returned" <=> result[i].kind = "return"
            /\ pc[i] = "raised" <=> result[i].kind = "raise")
    /\ [][\A i \in Inv :
            pc[i] \in Terminal =>
               /\ pc'[i] = pc[i]
               /\ result'[i] = result[i]
               /\ ctorLog'[i] = ctorLog[i]
               /\ conductLog'[i] = conductLog[i]]_vars

C6_Witness ==
    /\ pc[1] = "returned"
    /\ pc[2] = "raised"
    /\ result[1].kind = "return"
    /\ result[2].kind = "raise"

\* C7: an invocation calls the constructor exactly once when it passes
\* line 5 (and not before), calls conduct_research at most once, and still
\* has called it once, with one task constructed, after the operation
\* failed; the task objects in existence are exactly the ones of the
\* successful constructor calls, one per invocation at most.
C7_ConstructOnceInvokeAtMostOnce ==
    /\ \A i \in Inv :
          /\ Len(ctorLog[i]) <= 1
          /\ pc[i] \in PastLine5 <=> Len(ctorLog[i]) = 1
          /\ Len(conductLog[i]) <= 1
          /\ (awaited[i] # NoTask /\ tasks[awaited[i]].status = "failed")
             => Len(conductLog[i]) = 1
    /\ Len(tasks) = Cardinality({i \in Inv : CtorSucceeded(i) # {}})

C7_Witness ==
    \E i \in Inv :
       /\ pc[i] = "raised"
       /\ Len(ctorLog[i]) = 1
       /\ Len(conductLog[i]) = 1
       /\ tasks[awaited[i]].status = "failed"

\* C8: the operation is invoked only after, and only on, the task object
\* this invocation constructed; the invocation is suspended only on an
\* operation it has invoked; and it has returned only when that operation
\* had been invoked and has completed with a value.
C8_ConstructThenInvokeThenReturn ==
    \A i \in Inv :
       /\ conductLog[i] # <<>> =>
             /\ Len(ctorLog[i]) >= 1
             /\ ctorLog[i][1].ok
             /\ \A k \in 1..Len(conductLog[i]) :
                   conductLog[i][k] = ctorLog[i][1].task
       /\ pc[i] \in {"await", "L7", "returned"} => conductLog[i] # <<>>
       /\ pc[i] \in {"L7", "returned"} =>
             tasks[conductLog[i][1]].status = "done"
       /\ pc[i] = "L6" => (conductLog[i] = <<>> /\ ctorLog[i] # <<>>)

C8_Witness ==
    \E i \in Inv :
       /\ pc[i] = "returned"
       /\ Len(ctorLog[i]) = 1
       /\ Len(conductLog[i]) = 1
       /\ tasks[conductLog[i][1]].status = "done"

\* C9: research validates nothing.  Every invocation that has passed line 5
\* has called the constructor with its query value, the empty string
\* included, and every failure research has raised is one the dependency
\* raised to it, from the constructor or from the awaited operation.
C9_NoValidationNoOwnFailures ==
    \A i \in Inv :
       /\ pc[i] \in PastLine5 =>
             /\ Len(ctorLog[i]) >= 1
             /\ ctorLog[i][1].args.query = query[i]
       /\ pc[i] = "raised" =>
             \/ \E k \in CtorFailed(i) : ctorLog[i][k].exc = result[i].val
             \/ /\ awaited[i] # NoTask
                /\ tasks[awaited[i]].status = "failed"
                /\ tasks[awaited[i]].out = result[i].val

C9_Witness ==
    \E i \in Inv :
       /\ query[i] = ""
       /\ Len(ctorLog[i]) = 1
       /\ ctorLog[i][1].ok
       /\ ctorLog[i][1].args.query = ""
       /\ pc[i] = "returned"

\* C10: when the constructor raised F, research has raised that F, has
\* bound neither researcher nor report, and has made no call of
\* conduct_research.
C10_ConstructorFailurePropagates ==
    \A i \in Inv :
       \A k \in CtorFailed(i) :
          /\ pc[i] = "raised"
          /\ result[i] = [kind |-> "raise", val |-> ctorLog[i][k].exc]
          /\ conductLog[i] = <<>>
          /\ awaited[i] = NoTask
          /\ researcher[i] = NoTask
          /\ report[i] = NoValue

C10_Witness ==
    \E i \in Inv :
       /\ CtorFailed(i) # {}
       /\ pc[i] = "raised"
       /\ result[i].val = "ValueError"
       /\ conductLog[i] = <<>>

====
